---- MODULE Spec2Model ----
(***************************************************************************)
(* Research-paper summarizer: the sliding character window chunker         *)
(* (src/src/ingestion/preprocess.py), the TF-IDF extractive ranker         *)
(* (src/src/models/extractive.py) and the summarize-with-fallback          *)
(* orchestration (src/app.py, src/main.py, src/src/models/abstractive.py,  *)
(* src/paper-summarizer/src/hybrid.py).                                    *)
(***************************************************************************)
EXTENDS Integers, Sequences, FiniteSets, TLC

VARIABLES
    \* _chunk_text
    text, chunk_size, overlap, start, chunks, spans, cpc,
    \* summarize_extractive
    sentences, num_sentences, top_original_indices, summary_sentences,
    rank_summary, rpc,
    \* summarize with fallback (app.py, main.py, summarize_hybrid,
    \* summarize_abstractive) and the generative collaborator
    shell, method, use_hybrid, focus_text, dot_count, target_sentences,
    data_chunks, gen_load_ok, gen_fail, gen_chunks, ci, chunk_summaries,
    summary_text, used_method, ppc,
    \* chunk_text (paragraph/token-budget packer)
    paragraphs, max_tokens, overlap_tokens, pidx, current, current_tokens,
    tok_chunks, tpc,
    \* build_focus_text / _build_focus_text
    impl, abstract, sections, clean_text, max_chars, focus, fpc,
    \* _find_sections
    raw_hits, sect_hits, sidx, sect_map, spc,
    \* _clean_text / _normalize_text
    norm_fn, raw_text, norm_out, npc,
    \* preprocess (src/ingestion)
    data, data_at_call, prep_out, qpc

cvars == <<text, chunk_size, overlap, start, chunks, spans, cpc>>
rvars == <<sentences, num_sentences, top_original_indices, summary_sentences,
           rank_summary, rpc>>
pvars == <<shell, method, use_hybrid, focus_text, dot_count, target_sentences,
           data_chunks, gen_load_ok, gen_fail, gen_chunks, ci,
           chunk_summaries, summary_text, used_method, ppc>>
tvars == <<paragraphs, max_tokens, overlap_tokens, pidx, current,
           current_tokens, tok_chunks, tpc>>
\* The components beside the chunker, the ranker and the orchestration.
fvars == <<impl, abstract, sections, clean_text, max_chars, focus, fpc>>
svars == <<raw_hits, sect_hits, sidx, sect_map, spc>>
\* The sectioner, the normalizers and the ingestion entry point.
nvars == <<norm_fn, raw_text, norm_out, npc>>
qvars == <<data, data_at_call, prep_out, qpc>>
yvars == <<svars, nvars, qvars>>
xvars == <<tvars, fvars, yvars>>
vars == <<cvars, rvars, pvars, xvars>>

(***************************************************************************)
(* Bounds                                                                  *)
(***************************************************************************)
MaxLen == 5
MaxChunk == 4
MaxOverlap == 4
MaxSents == 4
MaxWeight == 2
MaxK == 3
MaxFocusSents == 2
MaxPipeChunks == 3
MaxDots == 12
MaxParas == 3
MaxTokens == 4
MaxOverlapTokens == 3
MaxSections == 2
MaxCleanLen == 3
MaxChars == 32
MaxHits == 3
MaxRawLen == 5
MaxDocLen == 4

(***************************************************************************)
(* Python helpers                                                          *)
(***************************************************************************)
Min(a, b) == IF a <= b THEN a ELSE b
Max(a, b) == IF a >= b THEN a ELSE b

\* A slice or search index as Python adjusts it against a length n.
PyIdx(i, n) == IF i < 0 THEN Max(i + n, 0) ELSE Min(i, n)

\* s[i:j]
Slice(s, i, j) ==
    LET a == PyIdx(i, Len(s))
        b == PyIdx(j, Len(s))
    IN  IF a >= b THEN <<>> ELSE SubSeq(s, a + 1, b)

\* s.rfind(ch, i, j): the highest 0-based index in [i, j) holding ch, else -1.
RFind(s, ch, i, j) ==
    LET a == PyIdx(i, Len(s))
        b == PyIdx(j, Len(s))
        hits == {k \in a..(b - 1) : s[k + 1] = ch}
    IN  IF hits = {} THEN 0 - 1
        ELSE CHOOSE k \in hits : \A m \in hits : m <= k

(***************************************************************************)
(* _chunk_text: sliding character window                                   *)
(***************************************************************************)
Chars == {"a", " "}

Texts == UNION {[1..n -> Chars] : n \in 0..MaxLen}

ChunkSizes == (0 - 1)..MaxChunk
Overlaps == (0 - 1)..MaxOverlap

\* The loop cannot run more often than the text has characters; the guard
\* below only keeps a non-advancing variant of the loop finite.
IterCap == MaxLen + 2

\* Mutant: the end of the window is taken one character too far.
WindowEndOffByOne(t, st, cs, ov) ==
    LET end0 == Min(st + cs + 1, Len(t))
        safe_search_start == st + ov
    IN  IF end0 < Len(t) /\ safe_search_start < end0
        THEN LET last_space == RFind(t, " ", safe_search_start, end0)
             IN  IF last_space # 0 - 1 THEN last_space ELSE end0
        ELSE end0

\* Right edge of the window, snapped back to the last space of the safe zone.
WindowEnd(t, st, cs, ov) ==
    LET end0 == Min(st + cs, Len(t))
        safe_search_start == st + ov
    IN  IF end0 < Len(t) /\ safe_search_start < end0
        THEN LET last_space == RFind(t, " ", safe_search_start, end0)
             IN  IF last_space # 0 - 1 THEN last_space ELSE end0
        ELSE end0

\* Mutant: the forced advance is left out.
NextStartNoForce(st, end, cs, ov) == end - ov

\* Mutant: the forced advance may be zero characters.
NextStartZeroStep(st, end, cs, ov) ==
    LET next_start == end - ov
    IN  IF next_start <= st THEN st + Max(0, cs - ov) ELSE next_start

\* Start of the next window, with the forced advance.
NextStart(st, end, cs, ov) ==
    LET next_start == end - ov
    IN  IF next_start <= st THEN st + Max(1, cs - ov) ELSE next_start

\* A component that is not running in the checked specification.
RankIdle ==
    /\ sentences = <<>>
    /\ num_sentences = 0
    /\ top_original_indices = <<>>
    /\ summary_sentences = <<>>
    /\ rank_summary = <<>>
    /\ rpc = "idle"

PipeIdle ==
    /\ shell = "none"
    /\ method = "none"
    /\ use_hybrid = FALSE
    /\ focus_text = <<>>
    /\ dot_count = 0
    /\ target_sentences = 0
    /\ data_chunks = <<>>
    /\ gen_load_ok = TRUE
    /\ gen_fail = <<>>
    /\ gen_chunks = <<>>
    /\ ci = 0
    /\ chunk_summaries = <<>>
    /\ summary_text = <<>>
    /\ used_method = "none"
    /\ ppc = "idle"

PackIdle ==
    /\ paragraphs = <<>>
    /\ max_tokens = 0
    /\ overlap_tokens = 0
    /\ pidx = 0
    /\ current = <<>>
    /\ current_tokens = 0
    /\ tok_chunks = <<>>
    /\ tpc = "idle"

FocusIdle ==
    /\ impl = "none"
    /\ abstract = <<>>
    /\ sections = <<>>
    /\ clean_text = <<>>
    /\ max_chars = 0
    /\ focus = <<>>
    /\ fpc = "idle"

SectIdle ==
    /\ raw_hits = <<>>
    /\ sect_hits = <<>>
    /\ sidx = 0
    /\ sect_map = <<>>
    /\ spc = "idle"

NormIdle ==
    /\ norm_fn = "none"
    /\ raw_text = <<>>
    /\ norm_out = <<>>
    /\ npc = "idle"

PrepIdle ==
    /\ data = <<>>
    /\ data_at_call = <<>>
    /\ prep_out = <<>>
    /\ qpc = "idle"

LaterIdle == SectIdle /\ NormIdle /\ PrepIdle

\* Every component added after the first three is idle.
OthersIdle == PackIdle /\ FocusIdle /\ LaterIdle

ChunkIdle ==
    /\ text = <<>>
    /\ chunk_size = 0
    /\ overlap = 0
    /\ start = 0
    /\ chunks = <<>>
    /\ spans = <<>>
    /\ cpc = "idle"

ChunkInit ==
    /\ RankIdle
    /\ PipeIdle
    /\ OthersIdle
    /\ text \in Texts
    /\ chunk_size \in ChunkSizes
    /\ overlap \in Overlaps
    /\ start = 0
    /\ chunks = <<>>
    /\ spans = <<>>
    /\ cpc = "call"

\* if len(text) <= chunk_size: return [text]
ChunkWhole ==
    /\ cpc = "call"
    /\ Len(text) <= chunk_size
    /\ chunks' = <<text>>
    /\ spans' = <<<<0, Len(text)>>>>
    /\ cpc' = "done"
    /\ UNCHANGED <<text, chunk_size, overlap, start>>
    /\ UNCHANGED <<rvars, pvars, xvars>>

\* chunks = []; start = 0; enter the while loop
ChunkEnter ==
    /\ cpc = "call"
    /\ Len(text) > chunk_size
    /\ start' = 0
    /\ chunks' = <<>>
    /\ cpc' = "loop"
    /\ UNCHANGED <<text, chunk_size, overlap, spans>>
    /\ UNCHANGED <<rvars, pvars, xvars>>

\* One iteration of the while loop.
ChunkIter ==
    /\ cpc = "loop"
    /\ start < Len(text)
    /\ Len(chunks) < IterCap
    /\ LET end == WindowEnd(text, start, chunk_size, overlap)
       IN  /\ chunks' = Append(chunks, Slice(text, start, end))
           /\ spans' = Append(spans, <<start, PyIdx(end, Len(text))>>)
           /\ start' = NextStart(start, end, chunk_size, overlap)
    /\ UNCHANGED <<text, chunk_size, overlap, cpc>>
    /\ UNCHANGED <<rvars, pvars, xvars>>

\* while condition fails: return chunks
ChunkExit ==
    /\ cpc = "loop"
    /\ start >= Len(text)
    /\ cpc' = "done"
    /\ UNCHANGED <<text, chunk_size, overlap, start, chunks, spans>>
    /\ UNCHANGED <<rvars, pvars, xvars>>

ChunkNext == ChunkWhole \/ ChunkEnter \/ ChunkIter \/ ChunkExit

ChunkSpec == ChunkInit /\ [][ChunkNext]_vars

\* The interpreter keeps executing a running call.
ChunkFairSpec == ChunkSpec /\ WF_vars(ChunkNext)

(***************************************************************************)
(* Properties of _chunk_text                                               *)
(***************************************************************************)
Degenerate == overlap >= chunk_size
ValidConfig == 0 <= overlap /\ overlap < chunk_size

\* C1: every iteration of the chunker's loop sets the next start strictly
\* greater than the current start, for every text and every integer
\* configuration, overlap >= chunk_size included.
C1_NextStartAdvances == [][ChunkIter => start' > start]_vars

\* C1 witness: a degenerate configuration whose loop has iterated twice.
C1_Witness == cpc = "loop" /\ Degenerate /\ Len(chunks) >= 2 /\ start >= 2

\* C2: the chunker terminates for every text and every configuration: a
\* call that enters the loop reaches start >= len(text) and returns.
C2_Terminates ==
    <>(cpc = "done" /\ (Len(text) > chunk_size => start >= Len(text)))

\* C2 witness: the loop has run to its end under a degenerate configuration.
C2_Witness ==
    /\ cpc = "done"
    /\ Degenerate
    /\ Len(chunks) >= 3
    /\ start >= Len(text)

\* Every character position of the text lies inside some chunk.
Covered == \A p \in 1..Len(text) :
    \E i \in 1..Len(spans) : spans[i][1] < p /\ p <= spans[i][2]

\* No stretch of text is skipped between two consecutive chunks.
NoGap == \A i \in 1..(Len(spans) - 1) :
    /\ spans[i][1] <= spans[i + 1][1]
    /\ spans[i + 1][1] <= spans[i][2]

\* C3: with 0 <= overlap < chunk_size the returned chunks cover the input:
\* every character position lies in a chunk and no stretch is skipped
\* between consecutive chunks.
C3_Coverage == (cpc = "done" /\ ValidConfig) => (Covered /\ NoGap)

\* C4: every chunk has length at most chunk_size, for chunk_size >= 1 and
\* overlap >= 0.
C4_ChunkLength ==
    (chunk_size >= 1 /\ overlap >= 0) =>
        \A i \in 1..Len(chunks) : Len(chunks[i]) <= chunk_size

\* C4 witness: a finished multi-chunk run holding a chunk of full size.
C4_Witness ==
    /\ cpc = "done"
    /\ chunk_size >= 2 /\ overlap >= 0
    /\ Len(chunks) >= 2
    /\ \E i \in 1..Len(chunks) : Len(chunks[i]) = chunk_size

\* C27: for a non-empty text, chunk_size >= 1 and 0 <= overlap < chunk_size
\* no emitted chunk is the empty string.
C27_NoEmptyChunk ==
    (text # <<>> /\ chunk_size >= 1 /\ ValidConfig) =>
        \A i \in 1..Len(chunks) : chunks[i] # <<>>

\* C28: once a chunk whose right edge is the end of the text has been
\* emitted the loop stops: only the last chunk reaches the end of the text.
C28_StopsAtEndOfText ==
    \A i \in 1..(Len(spans) - 1) : spans[i][2] < Len(text)

(***************************************************************************)
(* summarize_extractive: TF-IDF sentence ranking                           *)
(*                                                                         *)
(* A text is the list of sentences nltk.sent_tokenize splits it into.  A   *)
(* sentence carries what the ranker reads of it: whether it passes the     *)
(* garbage filter (ok) and the sum of its TF-IDF row (w).  A row sums to 0 *)
(* exactly when the sentence holds no vocabulary term, and the vectorizer  *)
(* raises ValueError (empty vocabulary) exactly when every row would.      *)
(***************************************************************************)
SentNames == <<"s1", "s2", "s3", "s4", "s5", "s6", "s7", "s8">>

\* The string of the sentence at position i (1-based) of a text.
SentText(i) == <<SentNames[i]>>

NoSentencesMsg == <<"Could not extract meaningful sentences.">>

SentKinds == {[ok |-> FALSE, w |-> 0]} \cup [ok : {TRUE}, w : 0..MaxWeight]

Docs == UNION {[1..n -> SentKinds] : n \in 0..MaxSents}

\* sep.join(parts)
RECURSIVE Join(_, _)
Join(parts, sep) ==
    IF parts = <<>> THEN <<>>
    ELSE IF Len(parts) = 1 THEN parts[1]
    ELSE parts[1] \o sep \o Join(Tail(parts), sep)

\* s[::-1]
Reverse(s) == [i \in 1..Len(s) |-> s[Len(s) + 1 - i]]

\* sorted(s)
RECURSIVE SortAsc(_)
SortAsc(s) ==
    IF s = <<>> THEN <<>>
    ELSE LET i == CHOOSE j \in 1..Len(s) : \A k \in 1..Len(s) : s[j] <= s[k]
         IN  <<s[i]>> \o SortAsc(SubSeq(s, 1, i - 1) \o SubSeq(s, i + 1, Len(s)))

\* valid_indices: positions of the sentences that pass the filter, in order.
ValidIndices(sents) ==
    LET F[n \in 0..Len(sents)] ==
            IF n = 0 THEN <<>>
            ELSE IF sents[n].ok THEN Append(F[n - 1], n) ELSE F[n - 1]
    IN  F[Len(sents)]

\* sentence_scores, one per clean sentence.
SentenceScores(sents) ==
    LET valid == ValidIndices(sents)
    IN  [i \in 1..Len(valid) |-> sents[valid[i]].w]

\* fit_transform raises ValueError: no clean sentence holds a vocabulary term.
EmptyVocabulary(sents) ==
    \A i \in 1..Len(sents) : sents[i].ok => sents[i].w = 0

\* scores.argsort(): an ascending order of the positions; numpy's default
\* sort is not stable, so ties may come out in either order.
ArgSorts(scores) ==
    LET n == Len(scores)
    IN  {p \in [1..n -> 1..n] :
            /\ \A i, j \in 1..n : i # j => p[i] # p[j]
            /\ \A i \in 1..(n - 1) : scores[p[i]] <= scores[p[i + 1]]}

\* Mutant: the selection is cut from the low end of the ascending order.
SelectTopFromLowEnd(p, k) == Reverse(Slice(p, 0, k))

\* argsort()[-num_sentences:][::-1]
SelectTop(p, k) == Reverse(Slice(p, 0 - k, Len(p)))

\* top_local_indices
TopLocalIndices(scores, k) ==
    IF Len(scores) <= k
    THEN {[i \in 1..Len(scores) |-> i]}
    ELSE {SelectTop(p, k) : p \in ArgSorts(scores)}

\* Mutant: the selection is left in score order.
TopOriginalIndicesUnsorted(valid, top_local) ==
    [i \in 1..Len(top_local) |-> valid[top_local[i]]]

\* top_original_indices = sorted([valid_indices[i] for i in top_local_indices])
TopOriginalIndices(valid, top_local) ==
    SortAsc([i \in 1..Len(top_local) |-> valid[top_local[i]]])

\* What a call returns: the selected positions, their sentences and the text.
RankResult(idx) ==
    LET sel == [i \in 1..Len(idx) |-> SentText(idx[i])]
    IN  [idx |-> idx, sents |-> sel, text |-> Join(sel, <<" ">>)]

\* Mutant: the prefix is taken of the filtered sentences.
FirstSentencesOfFiltered(sents, k) == Slice(ValidIndices(sents), 0, k)

\* sentences[:num_sentences], as positions.
FirstSentences(sents, k) == Slice([i \in 1..Len(sents) |-> i], 0, k)

\* summarize_extractive(text, num_sentences): the results a call may return.
SummarizeExtractive(sents, k) ==
    IF sents = <<>>
    THEN {[idx |-> <<>>, sents |-> <<>>, text |-> <<>>]}
    ELSE IF ValidIndices(sents) = <<>>
    THEN {[idx |-> <<>>, sents |-> <<>>, text |-> NoSentencesMsg]}
    ELSE IF EmptyVocabulary(sents)
    THEN {RankResult(FirstSentences(sents, k))}
    ELSE {RankResult(TopOriginalIndices(ValidIndices(sents), tl)) :
            tl \in TopLocalIndices(SentenceScores(sents), k)}

NumSentences == (0 - 1)..MaxK

RankInit ==
    /\ ChunkIdle
    /\ PipeIdle
    /\ OthersIdle
    /\ sentences \in Docs
    /\ num_sentences \in NumSentences
    /\ top_original_indices = <<>>
    /\ summary_sentences = <<>>
    /\ rank_summary = <<>>
    /\ rpc = "call"

\* One call of summarize_extractive.
RankCall ==
    /\ rpc = "call"
    /\ \E r \in SummarizeExtractive(sentences, num_sentences) :
        /\ top_original_indices' = r.idx
        /\ summary_sentences' = r.sents
        /\ rank_summary' = r.text
    /\ rpc' = "done"
    /\ UNCHANGED <<sentences, num_sentences>>
    /\ UNCHANGED <<cvars, pvars, xvars>>

RankNext == RankCall

RankSpec == RankInit /\ [][RankNext]_vars

(***************************************************************************)
(* Properties of summarize_extractive                                      *)
(***************************************************************************)
\* C10: the sentences summarize_extractive returns appear in the same
\* relative order as in the source text, whatever their scores, on the
\* scoring path and on the empty-vocabulary path alike.
C10_OrderPreserved ==
    rpc = "done" =>
        /\ \A i \in 1..(Len(top_original_indices) - 1) :
              top_original_indices[i] < top_original_indices[i + 1]
        /\ Len(summary_sentences) = Len(top_original_indices)
        /\ \A i \in 1..Len(summary_sentences) :
              /\ top_original_indices[i] \in 1..Len(sentences)
              /\ summary_sentences[i] = SentText(top_original_indices[i])

\* C10 witness: a selection on the scoring path that keeps a lower-scored
\* sentence in front of a higher-scored one.
C10_Witness ==
    /\ rpc = "done"
    /\ ~EmptyVocabulary(sentences)
    /\ num_sentences >= 2
    /\ Len(ValidIndices(sentences)) > num_sentences
    /\ Len(top_original_indices) >= 2
    /\ Len(top_original_indices) < Len(ValidIndices(sentences))
    /\ sentences[top_original_indices[1]].w < sentences[top_original_indices[2]].w

\* The positions a call selected, and the eligible ones it left out.
Selected == {top_original_indices[i] : i \in 1..Len(top_original_indices)}
Eligible == {ValidIndices(sentences)[i] : i \in 1..Len(ValidIndices(sentences))}

\* C11: for a non-negative k, summarize_extractive returns at most k
\* sentences, and exactly min(k, number of sentences passing the filter).
C11_Boundedness ==
    (rpc = "done" /\ num_sentences >= 0) =>
        /\ Len(summary_sentences) <= num_sentences
        /\ Len(summary_sentences) =
              Min(num_sentences, Len(ValidIndices(sentences)))

\* C12: when more than num_sentences sentences pass the filter, every
\* selected sentence scores at least as high as every eligible sentence
\* that was not selected.
C12_TopByScore ==
    (rpc = "done" /\ Len(ValidIndices(sentences)) > num_sentences) =>
        \A i \in Selected : \A j \in Eligible \ Selected :
            sentences[i].w >= sentences[j].w

\* C12 witness: a scored selection that leaves out an earlier sentence of
\* strictly lower score.
C12_Witness ==
    /\ rpc = "done"
    /\ num_sentences >= 2
    /\ Len(ValidIndices(sentences)) > num_sentences
    /\ ~EmptyVocabulary(sentences)
    /\ Len(top_original_indices) = num_sentences
    /\ \E i \in Selected : \E j \in Eligible \ Selected :
          j < i /\ sentences[j].w < sentences[i].w

\* C13: when the filtered corpus yields an empty vocabulary the ranker does
\* not raise: it returns the first num_sentences sentences of the text
\* verbatim, in order.
C13_EmptyVocabularyPrefix ==
    (rpc = "done" /\ num_sentences >= 0
        /\ ValidIndices(sentences) # <<>> /\ EmptyVocabulary(sentences)) =>
        LET n == Min(num_sentences, Len(sentences))
        IN  /\ top_original_indices = [i \in 1..n |-> i]
            /\ summary_sentences = [i \in 1..n |-> SentText(i)]
            /\ rank_summary = Join(summary_sentences, <<" ">>)

\* C13 witness: an empty-vocabulary text longer than num_sentences whose
\* first sentence does not pass the filter.
C13_Witness ==
    /\ rpc = "done"
    /\ num_sentences >= 2
    /\ Len(sentences) > num_sentences
    /\ ~sentences[1].ok
    /\ ValidIndices(sentences) # <<>> /\ EmptyVocabulary(sentences)
    /\ Len(summary_sentences) = num_sentences

\* C29: summarize_extractive returns the empty summary string whenever it
\* returns an empty sentence list, and in every outcome the summary string
\* is the space-join of the returned sentence list.
C29_SummaryIsJoin ==
    rpc = "done" =>
        /\ (summary_sentences = <<>> => rank_summary = <<>>)
        /\ rank_summary = Join(summary_sentences, <<" ">>)

(***************************************************************************)
(* Summarize with fallback: the processing logic of app.py, step 3 of      *)
(* main.py, summarize_hybrid and summarize_abstractive.                    *)
(*                                                                         *)
(* The generative collaborator (the HuggingFace pipeline) is a black box:  *)
(* loading it succeeds or raises (gen_load_ok), and the call on the chunk  *)
(* at position i returns a non-empty string GenText(i) or raises           *)
(* (gen_fail[i]).                                                          *)
(***************************************************************************)
DefaultNumSentences == 10
HybridFloor == 5

HybridLabel == "hybrid (extractive+abstractive)"
FallbackLabel == "extractive (fallback)"

ChunkNames == <<"c1", "c2", "c3", "c4", "c5", "c6">>
GenNames == <<"g1", "g2", "g3", "g4", "g5", "g6">>

\* summarizer(chunk)[0]['summary_text'] for the chunk at position i.
GenText(i) == <<GenNames[i]>>

FocusKinds == {[ok |-> FALSE, w |-> 0], [ok |-> TRUE, w |-> 0],
               [ok |-> TRUE, w |-> 1]}

FocusTexts == UNION {[1..n -> FocusKinds] : n \in 0..MaxFocusSents}

\* data['chunks']: _chunk_text always returns at least one chunk.
DataChunks == {[i \in 1..n |-> <<ChunkNames[i]>>] : n \in 1..MaxPipeChunks}

\* Mutant: the product is rounded up.
TargetSentencesCeil(approx_sentences) ==
    Max(HybridFloor, (approx_sentences + 1) \div 2)

\* target_sentences = max(5, int(approx_sentences * reduction_ratio)), with
\* the default reduction_ratio of 0.5.
TargetSentences(approx_sentences) == Max(HybridFloor, approx_sentences \div 2)

\* The fallback of both shells: summarize_extractive(data['focus_text']).
FallbackSummaries(ft) ==
    {r.text : r \in SummarizeExtractive(ft, DefaultNumSentences)}

\* condensed_text = " ".join(top_sentences)
CondensedTexts(ft, dots) ==
    {Join(r.sents, <<" ">>) : r \in SummarizeExtractive(ft, TargetSentences(dots))}

\* Mutant: a failing chunk discards what the loop has collected so far.
NextChunkSummariesReset(cs, i) ==
    IF gen_fail[i] THEN <<>> ELSE Append(cs, GenText(i))

\* The body of the per-chunk try/except of summarize_abstractive.
NextChunkSummaries(cs, i) ==
    IF gen_fail[i] THEN cs ELSE Append(cs, GenText(i))

\* What summarize_abstractive returns after its loop.
CombinedSummary(cs) == IF cs = <<>> THEN <<>> ELSE Join(cs, <<" ">>)

PipeInit ==
    /\ ChunkIdle
    /\ RankIdle
    /\ OthersIdle
    /\ \/ shell = "app" /\ method \in {"extractive", "abstractive"}
          /\ use_hybrid \in (IF method = "abstractive" THEN BOOLEAN ELSE {FALSE})
       \/ shell = "main" /\ method \in {"extractive", "abstractive"}
          /\ use_hybrid = FALSE
    /\ focus_text \in FocusTexts
    \* text.count('.') is read by summarize_hybrid alone
    /\ dot_count \in (IF use_hybrid /\ focus_text # <<>> THEN 0..MaxDots ELSE {0})
    /\ target_sentences = 0
    /\ data_chunks \in DataChunks
    /\ gen_load_ok \in BOOLEAN
    /\ gen_fail \in [1..(IF use_hybrid THEN 1 ELSE Len(data_chunks)) -> BOOLEAN]
    /\ gen_chunks = <<>>
    /\ ci = 0
    /\ chunk_summaries = <<>>
    /\ summary_text = <<>>
    /\ used_method = method
    /\ ppc = "START"

\* else: summary_text, _ = summarize_extractive(data['focus_text'])
PipeExtractive ==
    /\ ppc = "START"
    /\ method = "extractive"
    /\ summary_text' \in FallbackSummaries(focus_text)
    /\ ppc' = "SUMMARIZED"
    /\ UNCHANGED <<shell, method, use_hybrid, focus_text, dot_count,
                   target_sentences, data_chunks, gen_load_ok, gen_fail, gen_chunks, ci,
                   chunk_summaries, used_method>>
    /\ UNCHANGED <<cvars, rvars, xvars>>

\* summarize_hybrid: if not text: return ""
PipeHybridEmpty ==
    /\ ppc = "START"
    /\ method = "abstractive" /\ use_hybrid
    /\ focus_text = <<>>
    /\ summary_text' = <<>>
    /\ used_method' = HybridLabel
    /\ ppc' = "SUMMARIZED"
    /\ UNCHANGED <<shell, method, use_hybrid, focus_text, dot_count,
                   target_sentences, data_chunks, gen_load_ok, gen_fail, gen_chunks, ci,
                   chunk_summaries>>
    /\ UNCHANGED <<cvars, rvars, xvars>>

\* summarize_hybrid, step 1: the extractive filter builds the condensed text.
PipeFilter ==
    /\ ppc = "START"
    /\ method = "abstractive" /\ use_hybrid
    /\ focus_text # <<>>
    /\ target_sentences' = TargetSentences(dot_count)
    /\ \E condensed_text \in CondensedTexts(focus_text, dot_count) :
          gen_chunks' = <<condensed_text>>
    /\ ppc' = "FILTERED"
    /\ UNCHANGED <<shell, method, use_hybrid, focus_text, dot_count,
                   data_chunks, gen_load_ok, gen_fail, ci, chunk_summaries,
                   summary_text, used_method>>
    /\ UNCHANGED <<cvars, rvars, xvars>>

\* Mutant: summarize_hybrid hands over without filtering first.
ReadyToDelegateUnfiltered ==
    \/ ppc = "FILTERED"
    \/ ppc = "START" /\ method = "abstractive"

\* summarize_abstractive is entered: by summarize_hybrid after the filter,
\* or by the shell directly with data['chunks'].
ReadyToDelegate ==
    \/ ppc = "FILTERED"
    \/ ppc = "START" /\ method = "abstractive" /\ ~use_hybrid

\* The chunks argument of summarize_abstractive.
DelegatedChunks == IF ppc = "FILTERED" THEN gen_chunks ELSE data_chunks

\* summarize_abstractive: the model loads and the chunk loop starts.
PipeLoad ==
    /\ ReadyToDelegate
    /\ gen_load_ok
    /\ gen_chunks' = DelegatedChunks
    /\ ci' = 1
    /\ chunk_summaries' = <<>>
    /\ ppc' = "DELEGATED"
    /\ UNCHANGED <<shell, method, use_hybrid, focus_text, dot_count,
                   target_sentences, data_chunks, gen_load_ok, gen_fail, summary_text,
                   used_method>>
    /\ UNCHANGED <<cvars, rvars, xvars>>

\* summarize_abstractive raises RuntimeError on a load failure; the shell's
\* except clause labels the run a fallback and runs the extractive ranker.
PipeLoadFails ==
    /\ ReadyToDelegate
    /\ ~gen_load_ok
    /\ gen_chunks' = DelegatedChunks
    /\ used_method' = FallbackLabel
    /\ summary_text' \in FallbackSummaries(focus_text)
    /\ ppc' = "SUMMARIZED"
    /\ UNCHANGED <<shell, method, use_hybrid, focus_text, dot_count,
                   target_sentences, data_chunks, gen_load_ok, gen_fail, ci, chunk_summaries>>
    /\ UNCHANGED <<cvars, rvars, xvars>>

\* One iteration of the chunk loop of summarize_abstractive.
PipeChunk ==
    /\ ppc = "DELEGATED"
    /\ ci <= Len(gen_chunks)
    /\ chunk_summaries' = NextChunkSummaries(chunk_summaries, ci)
    /\ ci' = ci + 1
    /\ UNCHANGED <<shell, method, use_hybrid, focus_text, dot_count,
                   target_sentences, data_chunks, gen_load_ok, gen_fail, gen_chunks,
                   summary_text, used_method, ppc>>
    /\ UNCHANGED <<cvars, rvars, xvars>>

\* summarize_abstractive returns; the shell stores the result and, for a
\* hybrid run, sets the hybrid label.
PipeCombine ==
    /\ ppc = "DELEGATED"
    /\ ci > Len(gen_chunks)
    /\ summary_text' = CombinedSummary(chunk_summaries)
    /\ used_method' = IF use_hybrid THEN HybridLabel ELSE used_method
    /\ ppc' = "SUMMARIZED"
    /\ UNCHANGED <<shell, method, use_hybrid, focus_text, dot_count,
                   target_sentences, data_chunks, gen_load_ok, gen_fail, gen_chunks, ci,
                   chunk_summaries>>
    /\ UNCHANGED <<cvars, rvars, xvars>>

\* main.py: if not summary: sys.exit(1).  app.py stores whatever it got.
PipeFinish ==
    /\ ppc = "SUMMARIZED"
    /\ ppc' = IF shell = "main" /\ summary_text = <<>> THEN "ABORT"
              ELSE IF used_method = FallbackLabel THEN "DEGRADED"
              ELSE "DONE"
    /\ UNCHANGED <<shell, method, use_hybrid, focus_text, dot_count,
                   target_sentences, data_chunks, gen_load_ok, gen_fail, gen_chunks, ci,
                   chunk_summaries, summary_text, used_method>>
    /\ UNCHANGED <<cvars, rvars, xvars>>

PipeNext ==
    \/ PipeExtractive
    \/ PipeHybridEmpty
    \/ PipeFilter
    \/ PipeLoad
    \/ PipeLoadFails
    \/ PipeChunk
    \/ PipeCombine
    \/ PipeFinish

PipeSpec == PipeInit /\ [][PipeNext]_vars

(***************************************************************************)
(* Properties of the summarize-with-fallback orchestration                 *)
(***************************************************************************)
Terminal == ppc \in {"DONE", "DEGRADED", "ABORT"}

\* An abstractive or hybrid summary is requested.
GenRequested == method = "abstractive"

\* The run reaches the generative step (summarize_hybrid returns early on an
\* empty text).
GenInvoked == GenRequested /\ ~(use_hybrid /\ focus_text = <<>>)

AllChunksFail == \A i \in DOMAIN gen_fail : gen_fail[i]
SomeChunkFails == \E i \in DOMAIN gen_fail : gen_fail[i]
SomeChunkSucceeds == \E i \in DOMAIN gen_fail : ~gen_fail[i]

\* The focus text holds something the extractive ranker can return.
FocusHasText == focus_text # <<>>

\* The outputs of the successful chunks, in chunk order.
SuccessfulOutputs ==
    LET F[n \in 0..Len(gen_fail)] ==
            IF n = 0 THEN <<>>
            ELSE IF gen_fail[n] THEN F[n - 1] ELSE Append(F[n - 1], GenText(n))
    IN  F[Len(gen_fail)]

\* summary s holds the text of a successful generative call.
HoldsGeneratedText(s) ==
    \E i \in DOMAIN gen_fail :
        ~gen_fail[i] /\ \E k \in 1..Len(s) : <<s[k]>> = GenText(i)

\* C5: when an abstractive or hybrid summary is requested and the generative
\* step fails (the model does not load, or its calls raise), the run ends
\* with the extractive ranker's result on the focus text, labelled
\* 'extractive (fallback)'.
C5_FailureFallsBack ==
    (Terminal /\ GenInvoked /\ FocusHasText /\ (~gen_load_ok \/ AllChunksFail)) =>
        /\ ppc = "DEGRADED"
        /\ used_method = FallbackLabel
        /\ summary_text \in FallbackSummaries(focus_text)

\* C6: when the generative step fails on every chunk, the final summary is
\* the extractive ranker's output on the focus text, labelled
\* 'extractive (fallback)'.
C6_ZeroChunksFallsBack ==
    (Terminal /\ GenInvoked /\ FocusHasText /\ gen_load_ok /\ AllChunksFail) =>
        /\ used_method = FallbackLabel
        /\ summary_text \in FallbackSummaries(focus_text)

\* C7: when some chunks fail and at least one succeeds, summarize_abstractive
\* does not abort: its result is the outputs of the successful chunks, in
\* chunk order, joined, every failed chunk skipped.
C7_PartialFailureJoins ==
    (ppc \in {"SUMMARIZED", "DONE", "DEGRADED", "ABORT"}
        /\ GenInvoked /\ gen_load_ok /\ SomeChunkFails /\ SomeChunkSucceeds) =>
        /\ summary_text = Join(SuccessfulOutputs, <<" ">>)
        /\ ppc \in {"SUMMARIZED", "DONE"}
        /\ used_method # FallbackLabel

\* C7 witness: a finished run whose second of three chunks failed.
C7_Witness ==
    /\ ppc = "DONE"
    /\ gen_load_ok
    /\ Len(gen_chunks) = 3
    /\ gen_fail = <<FALSE, TRUE, FALSE>>
    /\ summary_text = <<"g1", " ", "g3">>

\* C8: with a permanently failing generative collaborator a hybrid or
\* abstractive run ends DONE or DEGRADED with a summary, never in an abort.
C8_FallbackNeverThrows ==
    (Terminal /\ GenInvoked /\ FocusHasText /\ (~gen_load_ok \/ AllChunksFail)) =>
        /\ ppc \in {"DONE", "DEGRADED"}
        /\ summary_text # <<>>

\* C9: a result labelled hybrid or abstractive holds text of a successful
\* generative call, and a run whose generative step produced nothing is
\* labelled 'extractive (fallback)'.
C9_HonestLabel ==
    (ppc \in {"DONE", "DEGRADED"} /\ FocusHasText) =>
        /\ used_method \in {HybridLabel, "abstractive"} =>
              HoldsGeneratedText(summary_text)
        /\ (GenRequested /\ ~HoldsGeneratedText(summary_text)) =>
              used_method = FallbackLabel

\* A hybrid run past its extractive filter.
HybridFiltered == use_hybrid /\ focus_text # <<>> /\ ppc # "START"

\* C14 as claimed: the target sentence count handed to the ranker is
\* max(5, ceil(approx_sentence_count * reduction_ratio)), the count being
\* the number of '.' characters of the text.
C14_TargetIsCeiling ==
    HybridFiltered =>
        target_sentences = Max(5, (dot_count + 1) \div 2)

\* C14 amended: the target sentence count is max(5, floor(approx_sentence_count
\* * reduction_ratio)): the product is truncated, not rounded up.
C14_TargetIsFloor ==
    HybridFiltered =>
        LET t == CHOOSE n \in 0..dot_count :
                    2 * n <= dot_count /\ dot_count < 2 * n + 2
        IN  target_sentences = (IF t > 5 THEN t ELSE 5)

\* C14 witness: an odd count of '.' large enough that rounding matters.
C14_Witness ==
    /\ HybridFiltered
    /\ dot_count >= 11
    /\ dot_count % 2 = 1
    /\ 2 * target_sentences < dot_count

\* The positions of S in ascending order.
RECURSIVE AscSeq(_)
AscSeq(S) ==
    IF S = {} THEN <<>>
    ELSE LET m == CHOOSE x \in S : \A y \in S : x <= y
         IN  <<m>> \o AscSeq(S \ {m})

\* The sentences of ft at the positions S, in document order, joined.
JoinedSelection(ft, S) ==
    Join([i \in 1..Cardinality(S) |-> SentText(AscSeq(S)[i])], <<" ">>)

\* C15: in hybrid mode summarize_abstractive is entered only after the
\* extractive filter has run, and its one chunk is the condensed text:
\* sentences of the input selected by the ranker, in document order, joined.
C15_CondensedDelegated ==
    [][(use_hybrid /\ (PipeLoad \/ PipeLoadFails)) =>
          /\ ppc = "FILTERED"
          /\ \E S \in SUBSET {i \in 1..Len(focus_text) : focus_text[i].ok
                                  \/ EmptyVocabulary(focus_text)} :
                gen_chunks' = <<JoinedSelection(focus_text, S)>>]_vars

\* C15 witness: the generative step holds a condensed text that left a
\* sentence of the input out.
C15_Witness ==
    /\ ppc = "DELEGATED"
    /\ use_hybrid
    /\ Len(focus_text) = 2
    /\ gen_chunks = <<SentText(2)>>

\* C30: in summarize_hybrid, for a non-empty input text, the condensed text
\* handed to the generative step is not the empty string.
C30_CondensedNonEmpty ==
    (use_hybrid /\ focus_text # <<>> /\ ppc = "DELEGATED") =>
        \A i \in 1..Len(gen_chunks) : gen_chunks[i] # <<>>

(***************************************************************************)
(* chunk_text: paragraph/token-budget packer (Backend/src/preprocess.py)   *)
(*                                                                         *)
(* A paragraph is what text.split("\n\n") yields, stripped and non-blank;  *)
(* it is given by the word counts of the parts the sentence-ish split      *)
(* re.split(r"(?<=[\.\!\?])\s+|\n+", p) cuts it into.  Word k of paragraph *)
(* i is the number 10 * i + k.  A chunk is read by its words, which is all *)
(* that str.split() and _approx_token_count see of it.                     *)
(***************************************************************************)
ParaShapes == {<<1>>, <<2>>, <<1, 1>>, <<2, 1>>, <<3>>, <<1, 2, 1>>, <<5>>}

PackTexts == UNION {[1..n -> ParaShapes] : n \in 0..MaxParas}

RECURSIVE SumSeq(_)
SumSeq(q) == IF q = <<>> THEN 0 ELSE Head(q) + SumSeq(Tail(q))

\* The words of part k of paragraph i, whose shape is sh.
PartWords(i, sh, k) ==
    LET before == SumSeq(SubSeq(sh, 1, k - 1))
    IN  [j \in 1..sh[k] |-> 10 * i + before + j]

\* The parts of paragraph i, and the paragraph whole.
ParaParts(i, sh) == [k \in 1..Len(sh) |-> PartWords(i, sh, k)]
ParaWords(i, sh) == [j \in 1..SumSeq(sh) |-> 10 * i + j]

\* _approx_token_count: int(len(s.split()) * 1.2)
ApproxTokenCount(words) == (Len(words) * 12) \div 10

\* "\n\n".join(current).strip(), as words.
RECURSIVE Flatten(_)
Flatten(q) == IF q = <<>> THEN <<>> ELSE Head(q) \o Flatten(Tail(q))

\* Mutant: the buffer is reset without being emitted.
FlushResetOnly(st) ==
    [chunks |-> st.chunks, current |-> <<>>, tokens |-> 0]

\* flush()
Flush(st) ==
    [chunks |-> IF st.current # <<>>
                THEN Append(st.chunks, Flatten(st.current))
                ELSE st.chunks,
     current |-> <<>>,
     tokens |-> 0]

\* current.append(x); current_tokens += tokens of x
Push(st, x) ==
    [st EXCEPT !.current = Append(@, x),
               !.tokens = @ + ApproxTokenCount(x)]

\* The body of the loop over the parts of an oversized paragraph.
RECURSIVE PackParts(_, _, _)
PackParts(st, parts, mt) ==
    IF parts = <<>> THEN st
    ELSE LET part == Head(parts)
             s1 == IF st.tokens + ApproxTokenCount(part) > mt
                   THEN Flush(st) ELSE st
         IN  PackParts(Push(s1, part), Tail(parts), mt)

\* overlap_words = words[-max(1, int(overlap_tokens / 1.2)):]
OverlapWords(prev, ot) == Slice(prev, 0 - Max(1, (ot * 10) \div 12), Len(prev))

\* The flush before a paragraph that does not fit, with the overlap seed.
FlushAndSeed(st, ot) ==
    LET f == Flush(st)
    IN  IF f.chunks # <<>> /\ ot > 0
        THEN LET ov == OverlapWords(f.chunks[Len(f.chunks)], ot)
             IN  IF ov # <<>>
                 THEN [f EXCEPT !.current = <<ov>>,
                                !.tokens = ApproxTokenCount(ov)]
                 ELSE f
        ELSE f

PackState == [chunks |-> tok_chunks, current |-> current,
              tokens |-> current_tokens]

PackInit ==
    /\ ChunkIdle
    /\ RankIdle
    /\ PipeIdle
    /\ FocusIdle
    /\ LaterIdle
    /\ paragraphs \in PackTexts
    /\ max_tokens \in 1..MaxTokens
    /\ overlap_tokens \in 0..MaxOverlapTokens
    /\ pidx = 1
    /\ current = <<>>
    /\ current_tokens = 0
    /\ tok_chunks = <<>>
    /\ tpc = "loop"

\* Loop body for a paragraph that alone exceeds max_tokens.
PackOversized ==
    /\ tpc = "loop"
    /\ pidx <= Len(paragraphs)
    /\ ApproxTokenCount(ParaWords(pidx, paragraphs[pidx])) > max_tokens
    /\ LET st == PackParts(PackState, ParaParts(pidx, paragraphs[pidx]),
                           max_tokens)
       IN  /\ tok_chunks' = st.chunks
           /\ current' = st.current
           /\ current_tokens' = st.tokens
    /\ pidx' = pidx + 1
    /\ UNCHANGED <<paragraphs, max_tokens, overlap_tokens, tpc>>
    /\ UNCHANGED <<cvars, rvars, pvars, fvars, yvars>>

\* Loop body for any other paragraph.
PackParagraph ==
    /\ tpc = "loop"
    /\ pidx <= Len(paragraphs)
    /\ LET p == ParaWords(pidx, paragraphs[pidx])
           p_tokens == ApproxTokenCount(p)
       IN  /\ p_tokens <= max_tokens
           /\ LET s1 == IF current_tokens + p_tokens > max_tokens
                        THEN FlushAndSeed(PackState, overlap_tokens)
                        ELSE PackState
                  st == Push(s1, p)
              IN  /\ tok_chunks' = st.chunks
                  /\ current' = st.current
                  /\ current_tokens' = st.tokens
    /\ pidx' = pidx + 1
    /\ UNCHANGED <<paragraphs, max_tokens, overlap_tokens, tpc>>
    /\ UNCHANGED <<cvars, rvars, pvars, fvars, yvars>>

\* After the loop: flush(); return chunks
PackFinish ==
    /\ tpc = "loop"
    /\ pidx > Len(paragraphs)
    /\ LET st == Flush(PackState)
       IN  /\ tok_chunks' = st.chunks
           /\ current' = st.current
           /\ current_tokens' = st.tokens
    /\ tpc' = "done"
    /\ UNCHANGED <<paragraphs, max_tokens, overlap_tokens, pidx>>
    /\ UNCHANGED <<cvars, rvars, pvars, fvars, yvars>>

PackNext == PackOversized \/ PackParagraph \/ PackFinish

PackSpec == PackInit /\ [][PackNext]_vars

(***************************************************************************)
(* Properties of chunk_text                                                *)
(***************************************************************************)
\* w occurs in c as a contiguous run of words.
OccursIn(w, c) ==
    \E a \in 0..(Len(c) - Len(w)) : SubSeq(c, a + 1, a + Len(w)) = w

\* The first chunk holding w, or 0.
FirstChunkWith(w) ==
    IF \E i \in 1..Len(tok_chunks) : OccursIn(w, tok_chunks[i])
    THEN CHOOSE i \in 1..Len(tok_chunks) :
            /\ OccursIn(w, tok_chunks[i])
            /\ \A j \in 1..(i - 1) : ~OccursIn(w, tok_chunks[j])
    ELSE 0

Oversized(i) ==
    ApproxTokenCount(ParaWords(i, paragraphs[i])) > max_tokens

\* C16: every non-blank paragraph is represented in the output: its words
\* appear, in order, in an emitted chunk; the fragments of a decomposed
\* oversized paragraph appear each in a chunk, in chunk order.
C16_EveryParagraphRepresented ==
    tpc = "done" =>
        \A i \in 1..Len(paragraphs) :
            IF Oversized(i)
            THEN LET parts == ParaParts(i, paragraphs[i])
                 IN  /\ \A k \in 1..Len(parts) : FirstChunkWith(parts[k]) > 0
                     /\ \A k \in 1..(Len(parts) - 1) :
                           FirstChunkWith(parts[k]) <= FirstChunkWith(parts[k + 1])
            ELSE FirstChunkWith(ParaWords(i, paragraphs[i])) > 0

\* C16 witness: a finished run that decomposed an oversized paragraph over
\* two chunks and packed two other paragraphs.
C16_Witness ==
    /\ tpc = "done"
    /\ Len(paragraphs) = 3
    /\ Len(tok_chunks) >= 3
    /\ \E i \in 1..Len(paragraphs) :
          /\ Oversized(i)
          /\ Len(paragraphs[i]) >= 2
          /\ FirstChunkWith(ParaParts(i, paragraphs[i])[1])
                < FirstChunkWith(ParaParts(i, paragraphs[i])[Len(paragraphs[i])])

\* C17: every emitted chunk has approximate token cost at most max_tokens,
\* chunks seeded with an overlap and chunks built from an oversized
\* paragraph included.
C17_ChunkWithinBudget ==
    \A i \in 1..Len(tok_chunks) : ApproxTokenCount(tok_chunks[i]) <= max_tokens

\* round(overlap_tokens / 1.2), halves to even.
RoundedOverlap(ot) ==
    LET q == (ot * 5) \div 6
        r == (ot * 5) % 6
    IN  IF r > 3 \/ (r = 3 /\ q % 2 = 1) THEN q + 1 ELSE q

\* C18: with overlap_tokens > 0 every chunk after the first begins with the
\* last max(1, round(overlap_tokens / 1.2)) words of the chunk before it.
C18_ChunksOverlap ==
    (tpc = "done" /\ overlap_tokens > 0) =>
        \A i \in 2..Len(tok_chunks) :
            LET prev == tok_chunks[i - 1]
                ov == Slice(prev, 0 - Max(1, RoundedOverlap(overlap_tokens)),
                            Len(prev))
            IN  /\ Len(tok_chunks[i]) >= Len(ov)
                /\ SubSeq(tok_chunks[i], 1, Len(ov)) = ov

(***************************************************************************)
(* build_focus_text (Backend/src/preprocess.py) and _build_focus_text      *)
(* (src/ingestion/preprocess.py)                                           *)
(*                                                                         *)
(* A string is the sequence of its characters.  sections is the dict of    *)
(* section bodies by canonical name; an absent abstract (None or "") is    *)
(* the empty string.                                                       *)
(***************************************************************************)
Whitespace == {" ", "\n", "\r"}

\* str.strip()
RECURSIVE LStrip(_)
LStrip(s) ==
    IF s # <<>> /\ Head(s) \in Whitespace THEN LStrip(Tail(s)) ELSE s

Strip(s) == Reverse(LStrip(Reverse(LStrip(s))))

\* The label literal of each add_if call, and of the abstract.
Label(name) ==
    CASE name = "abstract" -> <<"A", "B", "S", "T", "R", "A", "C", "T">>
      [] name = "introduction" -> <<"I", "N", "T", "R", "O", "D", "U", "C", "T", "I", "O", "N">>
      [] name = "method" -> <<"M", "E", "T", "H", "O", "D">>
      [] name = "approach" -> <<"A", "P", "P", "R", "O", "A", "C", "H">>
      [] name = "model" -> <<"M", "O", "D", "E", "L">>
      [] name = "experiments" -> <<"E", "X", "P", "E", "R", "I", "M", "E", "N", "T", "S">>
      [] name = "results" -> <<"R", "E", "S", "U", "L", "T", "S">>
      [] name = "discussion" -> <<"D", "I", "S", "C", "U", "S", "S", "I", "O", "N">>
      [] name = "analysis" -> <<"A", "N", "A", "L", "Y", "S", "I", "S">>
      [] name = "conclusion" -> <<"C", "O", "N", "C", "L", "U", "S", "I", "O", "N">>

\* The names build_focus_text looks up, the one _build_focus_text looks up
\* beside them, and one neither does.
BackendNames == {"introduction", "method", "approach", "model", "experiments",
                 "results", "discussion", "analysis", "conclusion"}
IngestNames == {"conclusion", "results", "methods", "introduction"}
SectionNames == BackendNames \cup IngestNames \cup {"background"}

Contents == {<<"x">>, <<" ", "x", "\n">>}
Abstracts == {<<>>, <<"x">>, <<" ">>}
CleanTexts == {[i \in 1..n |-> "x"] : n \in 0..MaxCleanLen}

SectionDicts ==
    UNION {[S -> {c}] : S \in {T \in SUBSET SectionNames :
                                  Cardinality(T) <= MaxSections},
                        c \in Contents}

\* add_if(name, label)
AddIf(parts, secs, name) ==
    IF name \in DOMAIN secs
    THEN Append(parts, Label(name) \o <<"\n">> \o Strip(secs[name]))
    ELSE parts

\* Mutant: approach and model are added beside method.
AddMethodFamilyAlways(parts, secs) ==
    AddIf(AddIf(AddIf(parts, secs, "method"), secs, "approach"), secs, "model")

\* if "method" in sections: ... else: approach, model
AddMethodFamily(parts, secs) ==
    IF "method" \in DOMAIN secs
    THEN AddIf(parts, secs, "method")
    ELSE AddIf(AddIf(parts, secs, "approach"), secs, "model")

\* parts, as build_focus_text collects them.
BackendParts(abs, secs) ==
    LET p0 == IF abs # <<>>
              THEN <<Label("abstract") \o <<"\n">> \o Strip(abs)>>
              ELSE <<>>
        p1 == AddIf(p0, secs, "introduction")
        p2 == AddMethodFamily(p1, secs)
        p3 == AddIf(p2, secs, "experiments")
        p4 == AddIf(p3, secs, "results")
        p5 == AddIf(p4, secs, "discussion")
        p6 == AddIf(p5, secs, "analysis")
    IN  AddIf(p6, secs, "conclusion")

\* Mutant: the parts are joined whether or not there are any.
AssembleJoinOnly(parts, full) == Strip(Join(parts, <<"\n", "\n">>))

\* if not parts: focus = clean_text  else: "\n\n".join(parts).strip()
Assemble(parts, full) ==
    IF parts = <<>> THEN full ELSE Strip(Join(parts, <<"\n", "\n">>))

\* Mutant: the cut keeps one character too many.
HardCapOffByOne(s, mc) == IF Len(s) > mc THEN Slice(s, 0, mc + 1) ELSE s

\* if len(focus) > max_chars: focus = focus[:max_chars]
HardCap(s, mc) == IF Len(s) > mc THEN Slice(s, 0, mc) ELSE s

BuildFocusTextResult(abs, secs, full, mc) ==
    HardCap(Assemble(BackendParts(abs, secs), full), mc)

MethodsCap == 2000
IntroCap == 1000
Ellipsis == <<".", ".", ".">>

\* parts, as _build_focus_text collects them.
IngestParts(abs, secs) ==
    LET p0 == IF abs # <<>> THEN <<abs>> ELSE <<>>
        p1 == IF "conclusion" \in DOMAIN secs
              THEN Append(p0, secs["conclusion"]) ELSE p0
        p2 == IF "results" \in DOMAIN secs
              THEN Append(p1, secs["results"]) ELSE p1
        p3 == IF "methods" \in DOMAIN secs
              THEN Append(p2, Slice(secs["methods"], 0, MethodsCap) \o Ellipsis)
              ELSE p2
    IN  IF "introduction" \in DOMAIN secs
        THEN Append(p3, Slice(secs["introduction"], 0, IntroCap) \o Ellipsis)
        ELSE p3

IngestFocusTextResult(abs, secs, full) ==
    LET parts == IngestParts(abs, secs)
    IN  IF parts = <<>> THEN full ELSE Join(parts, <<"\n", "\n">>)

\* _build_focus_text has no max_chars parameter; max_chars stays 0 there.
FocusInit ==
    /\ ChunkIdle
    /\ RankIdle
    /\ PipeIdle
    /\ PackIdle
    /\ LaterIdle
    /\ impl \in {"backend", "ingestion"}
    /\ abstract \in Abstracts
    /\ sections \in SectionDicts
    /\ clean_text \in CleanTexts
    /\ max_chars \in (IF impl = "backend" THEN 0..MaxChars ELSE {0})
    /\ focus = <<>>
    /\ fpc = "call"

BuildFocusText ==
    /\ fpc = "call"
    /\ impl = "backend"
    /\ focus' = BuildFocusTextResult(abstract, sections, clean_text, max_chars)
    /\ fpc' = "done"
    /\ UNCHANGED <<impl, abstract, sections, clean_text, max_chars>>
    /\ UNCHANGED <<cvars, rvars, pvars, tvars, yvars>>

IngestBuildFocusText ==
    /\ fpc = "call"
    /\ impl = "ingestion"
    /\ focus' = IngestFocusTextResult(abstract, sections, clean_text)
    /\ fpc' = "done"
    /\ UNCHANGED <<impl, abstract, sections, clean_text, max_chars>>
    /\ UNCHANGED <<cvars, rvars, pvars, tvars, yvars>>

FocusNext == BuildFocusText \/ IngestBuildFocusText

FocusSpec == FocusInit /\ [][FocusNext]_vars

(***************************************************************************)
(* Properties of the focus text                                            *)
(***************************************************************************)
RECURSIVE SplitLines(_, _)
SplitLines(s, cur) ==
    IF s = <<>> THEN <<cur>>
    ELSE IF Head(s) = "\n" THEN <<cur>> \o SplitLines(Tail(s), <<>>)
    ELSE SplitLines(Tail(s), Append(cur, Head(s)))

PriorityList == <<"abstract", "introduction", "method", "approach", "model",
                  "experiments", "results", "discussion", "analysis",
                  "conclusion">>

IsLabelLine(l) == \E i \in 1..Len(PriorityList) : l = Label(PriorityList[i])

\* The label lines of the focus text, top to bottom.
LabelsOfFocus == SelectSeq(SplitLines(focus, <<>>), IsLabelLine)

PresentForFocus(name) ==
    IF name = "abstract" THEN abstract # <<>>
    ELSE IF name \in {"approach", "model"}
    THEN name \in DOMAIN sections /\ "method" \notin DOMAIN sections
    ELSE name \in DOMAIN sections

\* The priority list restricted to what is present, as labels.
ExpectedLabels ==
    LET names == SelectSeq(PriorityList, PresentForFocus)
    IN  [i \in 1..Len(names) |-> Label(names[i])]

IsPrefix(a, b) == Len(a) <= Len(b) /\ SubSeq(b, 1, Len(a)) = a

BackendDone == fpc = "done" /\ impl = "backend"

\* C19: the labels of the text build_focus_text returns are exactly the
\* priority list ABSTRACT, INTRODUCTION, METHOD (or, without method,
\* APPROACH then MODEL), EXPERIMENTS, RESULTS, DISCUSSION, ANALYSIS,
\* CONCLUSION restricted to the abstract and sections present.
C19_LabelsExactlyPresent ==
    BackendDone => LabelsOfFocus = ExpectedLabels

\* C19, amended: the labels are a prefix of that restricted list, and all
\* of it when the returned text is shorter than max_chars (nothing was cut).
C19_LabelsUpToCap ==
    BackendDone =>
        /\ IsPrefix(LabelsOfFocus, ExpectedLabels)
        /\ (Len(focus) < max_chars => LabelsOfFocus = ExpectedLabels)

\* C19 witness: approach and model stand in for an absent method, uncut.
C19_Witness ==
    /\ BackendDone
    /\ DOMAIN sections = {"approach", "model"}
    /\ Len(focus) < max_chars
    /\ LabelsOfFocus = <<Label("approach"), Label("model")>>

NothingMatched ==
    /\ abstract = <<>>
    /\ (impl = "backend" => DOMAIN sections \cap BackendNames = {})
    /\ (impl = "ingestion" => DOMAIN sections \cap IngestNames = {})

\* C20: with no abstract and no matched section the focus text is full_text
\* unchanged, whatever full_text and max_chars are.
C20_FallbackUnchanged ==
    (fpc = "done" /\ NothingMatched) => focus = clean_text

\* C20, amended: it is full_text unchanged when full_text has at most
\* max_chars characters (always, where there is no max_chars), and the first
\* max_chars characters of full_text otherwise.
C20_FallbackCapped ==
    (fpc = "done" /\ NothingMatched) =>
        IF impl = "backend" /\ Len(clean_text) > max_chars
        THEN focus = SubSeq(clean_text, 1, max_chars)
        ELSE focus = clean_text

\* C20 witness: build_focus_text fell back to a full_text longer than
\* max_chars, with an unmatched section in the dict.
C20_Witness ==
    /\ BackendDone
    /\ NothingMatched
    /\ DOMAIN sections # {}
    /\ Len(clean_text) = 3
    /\ max_chars = 2
    /\ Len(focus) = 2

\* The text build_focus_text holds before the hard cap.
AssembledText == Assemble(BackendParts(abstract, sections), clean_text)

\* C21: the focus text build_focus_text returns has at most max_chars
\* characters, and when the assembled text is longer it is exactly the first
\* max_chars characters of the assembled text.
C21_HardCap ==
    BackendDone =>
        /\ Len(focus) <= max_chars
        /\ (Len(AssembledText) > max_chars =>
               focus = SubSeq(AssembledText, 1, max_chars))

\* C21 witness: labelled parts were assembled and cut inside the text.
C21_Witness ==
    /\ BackendDone
    /\ Cardinality(DOMAIN sections \cap BackendNames) = 2
    /\ max_chars > 0
    /\ Len(AssembledText) > max_chars
    /\ Len(focus) = max_chars

(***************************************************************************)
(* _find_sections (Backend/src/preprocess.py)                              *)
(*                                                                         *)
(* The text is given by the matches _SECTION_HEADING_RE.finditer yields,   *)
(* in text order: the heading word as written, and the length of the       *)
(* stripped text between this heading and the next (or the end).  The      *)
(* content that follows match i is the record [id |-> i, len |-> its       *)
(* length].  finditer yields matches by increasing start, so the sort on   *)
(* start leaves the list as it is.                                         *)
(***************************************************************************)
MinSectionLen == 200

\* Heading words as written, each an alternative of _SECTION_HEADING_RE.
RawHeadings == {"Introduction", "METHODS", "Methodology", "method", "Result",
                "Conclusions", "Background"}

\* m.group(1).lower()
Lower(raw) ==
    CASE raw = "Introduction" -> "introduction"
      [] raw = "METHODS" -> "methods"
      [] raw = "Methodology" -> "methodology"
      [] raw = "method" -> "method"
      [] raw = "Result" -> "result"
      [] raw = "Conclusions" -> "conclusions"
      [] raw = "Background" -> "background"

\* The variants dict, .get(name, name)
Canonical(name) ==
    CASE name = "methods" -> "method"
      [] name = "methodology" -> "method"
      [] name = "experiments" -> "experiments"
      [] name = "results" -> "results"
      [] name = "conclusions" -> "conclusion"
      [] name = "acknowledgements" -> "acknowledgments"
      [] name = "bibliography" -> "references"
      [] OTHER -> name

ContentLens == {MinSectionLen - 1, MinSectionLen}

RawHits ==
    UNION {[1..n -> [raw : RawHeadings, clen : ContentLens]] : n \in 0..MaxHits}

\* Mutant: a later heading of the same name replaces the earlier one.
KeepLast(secs, name, content) ==
    [k \in DOMAIN secs \cup {name} |->
        IF k = name THEN content ELSE secs[k]]

\* if name not in sections: sections[name] = content
KeepFirst(secs, name, content) ==
    IF name \in DOMAIN secs THEN secs
    ELSE [k \in DOMAIN secs \cup {name} |->
             IF k = name THEN content ELSE secs[k]]

SectInit ==
    /\ ChunkIdle
    /\ RankIdle
    /\ PipeIdle
    /\ PackIdle
    /\ FocusIdle
    /\ NormIdle
    /\ PrepIdle
    /\ raw_hits \in RawHits
    /\ sect_hits = <<>>
    /\ sidx = 0
    /\ sect_map = <<>>
    /\ spc = "scan"

\* The finditer loop, with at least one match.
SectScan ==
    /\ spc = "scan"
    /\ raw_hits # <<>>
    /\ sect_hits' = [i \in 1..Len(raw_hits) |->
                   [start |-> i, name |-> Canonical(Lower(raw_hits[i].raw))]]
    /\ sidx' = 1
    /\ spc' = "slice"
    /\ UNCHANGED <<raw_hits, sect_map>>
    /\ UNCHANGED <<cvars, rvars, pvars, tvars, fvars, nvars, qvars>>

\* if not hits: return {}
SectNoHits ==
    /\ spc = "scan"
    /\ raw_hits = <<>>
    /\ spc' = "done"
    /\ UNCHANGED <<raw_hits, sect_hits, sidx, sect_map>>
    /\ UNCHANGED <<cvars, rvars, pvars, tvars, fvars, nvars, qvars>>

\* One iteration of the loop over hits.
SectSlice ==
    /\ spc = "slice"
    /\ sidx <= Len(sect_hits)
    /\ LET content == [id |-> sect_hits[sidx].start,
                       len |-> raw_hits[sidx].clen]
       IN  sect_map' = IF content.len < MinSectionLen
                       THEN sect_map
                       ELSE KeepFirst(sect_map, sect_hits[sidx].name, content)
    /\ sidx' = sidx + 1
    /\ UNCHANGED <<raw_hits, sect_hits, spc>>
    /\ UNCHANGED <<cvars, rvars, pvars, tvars, fvars, nvars, qvars>>

\* return sections
SectReturn ==
    /\ spc = "slice"
    /\ sidx > Len(sect_hits)
    /\ spc' = "done"
    /\ UNCHANGED <<raw_hits, sect_hits, sidx, sect_map>>
    /\ UNCHANGED <<cvars, rvars, pvars, tvars, fvars, nvars, qvars>>

SectNext == SectScan \/ SectNoHits \/ SectSlice \/ SectReturn

SectSpec == SectInit /\ [][SectNext]_vars

(***************************************************************************)
(* Properties of _find_sections                                            *)
(***************************************************************************)
\* The headings of canonical name n, by position.
HeadingsOf(n) == {i \in 1..Len(sect_hits) : sect_hits[i].name = n}

LongHeadingsOf(n) == {i \in HeadingsOf(n) : raw_hits[i].clen >= 200}

Earliest(S) == CHOOSE i \in S : \A j \in S : i <= j

\* C22: a canonical name matched by several headings keeps the content that
\* follows the earliest of them.
C22_FirstOccurrenceWins ==
    spc = "done" =>
        \A n \in DOMAIN sect_map : sect_map[n].id = Earliest(HeadingsOf(n))

\* C22, amended: it keeps the content that follows the earliest of them
\* whose content has at least 200 characters.
C22_FirstLongOccurrenceWins ==
    spc = "done" =>
        \A n \in DOMAIN sect_map :
            /\ LongHeadingsOf(n) # {}
            /\ sect_map[n].id = Earliest(LongHeadingsOf(n))

\* C22 witness: two long sections of one canonical name, the first kept.
C22_Witness ==
    /\ spc = "done"
    /\ \E n \in DOMAIN sect_map :
          /\ Cardinality(LongHeadingsOf(n)) >= 2
          /\ Cardinality({raw_hits[i].raw : i \in LongHeadingsOf(n)}) >= 2
          /\ sect_map[n].id = Earliest(LongHeadingsOf(n))

ClosedNames == {"abstract", "introduction", "method", "experiments",
                "results", "discussion", "analysis", "conclusion",
                "acknowledgments", "references"}

\* C23: every key of the returned map is one of the canonical names
\* abstract, introduction, method, experiments, results, discussion,
\* analysis, conclusion, acknowledgments, references.
C23_KeysCanonical == DOMAIN sect_map \subseteq ClosedNames

(***************************************************************************)
(* _clean_text (src/ingestion/preprocess.py) and _normalize_text           *)
(* (Backend/src/preprocess.py)                                             *)
(*                                                                         *)
(* A text is a sequence of atoms: "w" a letter, "1" a digit, "-", " ",     *)
(* "\n", "\r", and "REF", a references/bibliography heading word (with its *)
(* optional numbering and colon), which is made of word characters.        *)
(***************************************************************************)
WordAtoms == {"w", "1", "REF"}
DigitAtoms == {"1"}
CleanAtoms == {"w", "-", " ", "\n", "REF"}
NormAtoms == {"w", "-", " ", "\n", "\r", "1"}

RawTexts(atoms) == UNION {[1..n -> atoms] : n \in 0..MaxRawLen}

\* The first index at or after i whose atom is not in S (Len(s) + 1 if none).
RECURSIVE RunEnd(_, _, _)
RunEnd(s, i, S) ==
    IF i <= Len(s) /\ s[i] \in S THEN RunEnd(s, i + 1, S) ELSE i

\* re.sub(r'(\w+)-\s*\n?\s*(\w+)', r'\1\2', text), from index i on.
RECURSIVE JoinHyphens(_, _)
JoinHyphens(s, i) ==
    IF i > Len(s) THEN <<>>
    ELSE IF s[i] \in WordAtoms
    THEN LET j == RunEnd(s, i, WordAtoms)
             k == RunEnd(s, j + 1, Whitespace)
             l == RunEnd(s, k, WordAtoms)
         IN  IF j <= Len(s) /\ s[j] = "-" /\ l > k
             THEN SubSeq(s, i, j - 1) \o SubSeq(s, k, l - 1)
                      \o JoinHyphens(s, l)
             ELSE SubSeq(s, i, j - 1) \o JoinHyphens(s, j)
    ELSE <<s[i]>> \o JoinHyphens(s, i + 1)

\* re.sub(r'\s+', ' ', text)
RECURSIVE CollapseWhitespace(_)
CollapseWhitespace(s) ==
    IF s = <<>> THEN <<>>
    ELSE IF Head(s) \in Whitespace
    THEN <<" ">> \o CollapseWhitespace(
                        SubSeq(s, RunEnd(s, 1, Whitespace), Len(s)))
    ELSE <<Head(s)>> \o CollapseWhitespace(Tail(s))

SearchWindow == 15000

\* The heading pattern matches at 0-based offset p of s:
\* (?:^|\n) \s* heading \s* \n
RefMatchesAt(s, p) ==
    \E a \in (IF p = 0 THEN {0} ELSE {})
                \cup (IF p < Len(s) /\ s[p + 1] = "\n" THEN {p + 1} ELSE {}) :
        LET q == RunEnd(s, a + 1, Whitespace)
        IN  /\ q <= Len(s)
            /\ s[q] = "REF"
            /\ \E r \in (q + 1)..(RunEnd(s, q + 1, Whitespace) - 1) :
                  s[r] = "\n"

\* re.search(...).start(), or -1 without a match.
RefSearch(s) ==
    IF \E p \in 0..Len(s) : RefMatchesAt(s, p)
    THEN CHOOSE p \in 0..Len(s) :
            /\ RefMatchesAt(s, p)
            /\ \A o \in 0..(p - 1) : ~RefMatchesAt(s, o)
    ELSE 0 - 1

CleanTextResult(t) ==
    LET t1 == JoinHyphens(t, 1)
        t2 == CollapseWhitespace(t1)
        search_area_start == Max(0, Len(t2) - SearchWindow)
        search_text == Slice(t2, search_area_start, Len(t2))
        m == RefSearch(search_text)
        t3 == IF m >= 0
              THEN Strip(Slice(t2, 0, search_area_start + m))
              ELSE t2
    IN  Strip(t3)

\* re.sub(_HYPHEN_LINEBREAK_RE, r"\1\2", text), from index i on.
RECURSIVE FixHyphenBreaks(_, _)
FixHyphenBreaks(s, i) ==
    IF i > Len(s) THEN <<>>
    ELSE IF /\ i + 3 <= Len(s)
            /\ s[i] \in WordAtoms
            /\ s[i + 1] = "-"
            /\ s[i + 2] = "\n"
            /\ s[i + 3] \in WordAtoms
    THEN <<s[i], s[i + 3]>> \o FixHyphenBreaks(s, i + 4)
    ELSE <<s[i]>> \o FixHyphenBreaks(s, i + 1)

\* text.replace("\r\n", "\n").replace("\r", "\n")
RECURSIVE NormalizeCRLF(_)
NormalizeCRLF(s) ==
    IF s = <<>> THEN <<>>
    ELSE IF Head(s) = "\r"
    THEN <<"\n">> \o NormalizeCRLF(
                         IF Len(s) >= 2 /\ s[2] = "\n"
                         THEN SubSeq(s, 3, Len(s)) ELSE Tail(s))
    ELSE <<Head(s)>> \o NormalizeCRLF(Tail(s))

\* The end (0-based, exclusive) of the match of _PAGE_NUM_RE,
\* ^\s*\d+\s*$ with MULTILINE, at 0-based offset p; -1 without one.
PageMatchEnd(s, p) ==
    LET k == RunEnd(s, p + 1, Whitespace)
        d == RunEnd(s, k, DigitAtoms)
        e == RunEnd(s, d, Whitespace)
        ends == {x \in (d - 1)..(e - 1) : x = Len(s) \/ s[x + 1] = "\n"}
    IN  IF (p = 0 \/ s[p] = "\n") /\ d > k /\ ends # {}
        THEN CHOOSE x \in ends : \A y \in ends : y <= x
        ELSE 0 - 1

\* re.sub(_PAGE_NUM_RE, "", text), from 0-based offset p on.
RECURSIVE RemovePageNumbers(_, _)
RemovePageNumbers(s, p) ==
    IF p >= Len(s) THEN <<>>
    ELSE LET m == PageMatchEnd(s, p)
         IN  IF m >= 0 THEN RemovePageNumbers(s, m)
             ELSE <<s[p + 1]>> \o RemovePageNumbers(s, p + 1)

\* re.sub(_RE_MULTISPACE, " ", text)
RECURSIVE CollapseSpaces(_)
CollapseSpaces(s) ==
    IF s = <<>> THEN <<>>
    ELSE IF Head(s) = " "
    THEN <<" ">> \o CollapseSpaces(SubSeq(s, RunEnd(s, 1, {" "}), Len(s)))
    ELSE <<Head(s)>> \o CollapseSpaces(Tail(s))

\* re.sub(_RE_MULTI_NEWLINES, "\n\n", text)
RECURSIVE CollapseNewlines(_)
CollapseNewlines(s) ==
    IF s = <<>> THEN <<>>
    ELSE IF Head(s) = "\n"
    THEN LET j == RunEnd(s, 1, {"\n"})
         IN  (IF j - 1 >= 3 THEN <<"\n", "\n">> ELSE SubSeq(s, 1, j - 1))
                 \o CollapseNewlines(SubSeq(s, j, Len(s)))
    ELSE <<Head(s)>> \o CollapseNewlines(Tail(s))

NormalizeTextResult(t) ==
    LET t1 == FixHyphenBreaks(t, 1)
        t2 == NormalizeCRLF(t1)
        t3 == RemovePageNumbers(t2, 0)
        t4 == CollapseSpaces(t3)
        t5 == CollapseNewlines(t4)
    IN  Strip(t5)

NormInit ==
    /\ ChunkIdle
    /\ RankIdle
    /\ PipeIdle
    /\ PackIdle
    /\ FocusIdle
    /\ SectIdle
    /\ PrepIdle
    /\ norm_fn \in {"clean_text", "normalize_text"}
    /\ raw_text \in RawTexts(IF norm_fn = "clean_text" THEN CleanAtoms
                        ELSE NormAtoms)
    /\ norm_out = <<>>
    /\ npc = "call"

CleanText ==
    /\ npc = "call"
    /\ norm_fn = "clean_text"
    /\ norm_out' = CleanTextResult(raw_text)
    /\ npc' = "done"
    /\ UNCHANGED <<norm_fn, raw_text>>
    /\ UNCHANGED <<cvars, rvars, pvars, tvars, fvars, svars, qvars>>

NormalizeText ==
    /\ npc = "call"
    /\ norm_fn = "normalize_text"
    /\ norm_out' = NormalizeTextResult(raw_text)
    /\ npc' = "done"
    /\ UNCHANGED <<norm_fn, raw_text>>
    /\ UNCHANGED <<cvars, rvars, pvars, tvars, fvars, svars, qvars>>

NormNext == CleanText \/ NormalizeText

NormSpec == NormInit /\ [][NormNext]_vars

(***************************************************************************)
(* Properties of the normalizers                                           *)
(***************************************************************************)
\* The heading stands alone on line h of the raw_text text.
HeadingLineAt(h) ==
    /\ raw_text[h] = "REF"
    /\ (h = 1 \/ raw_text[h - 1] = "\n")
    /\ h < Len(raw_text)
    /\ raw_text[h + 1] = "\n"

CountOf(s, a) == Cardinality({i \in 1..Len(s) : s[i] = a})

\* C24: when the text given to _clean_text has a references/bibliography
\* heading on a line of its own, the clean text holds nothing from that
\* heading on: not the heading, and no more letters than precede it.
C24_ReferencesCut ==
    (npc = "done" /\ norm_fn = "clean_text") =>
        \A h \in 1..Len(raw_text) :
            HeadingLineAt(h) =>
                /\ CountOf(norm_out, "REF") = 0
                /\ CountOf(norm_out, "w") <= CountOf(SubSeq(raw_text, 1, h - 1), "w")

\* C25: the text _normalize_text returns has no hyphen-broken word: no word
\* character, "-", line break, word character in a row.
C25_NoHyphenBreak ==
    (npc = "done" /\ norm_fn = "normalize_text") =>
        \A i \in 1..(Len(norm_out) - 3) :
            ~(/\ norm_out[i] \in {"w", "1"}
              /\ norm_out[i + 1] = "-"
              /\ norm_out[i + 2] = "\n"
              /\ norm_out[i + 3] \in {"w", "1"})

(***************************************************************************)
(* preprocess (src/ingestion/preprocess.py)                                *)
(*                                                                         *)
(* data is the caller's dict, data_at_call the value it had when the call  *)
(* was made.  A field that may be None is a record [has, val].  The text   *)
(* is a sequence of atoms: a header word of _extract_sections, " ", and    *)
(* "x", a character of body text.                                          *)
(***************************************************************************)
None == [has |-> FALSE, val |-> <<>>]
Some(v) == [has |-> TRUE, val |-> v]

\* Python truthiness of an optional string.
Truthy(o) == o.has /\ o.val # <<>>

\* o or ''
OrEmpty(o) == IF o.has THEN o.val ELSE <<>>

DocAtoms == {"ABSTRACT", "INTRODUCTION", " ", "x"}
DocTexts == UNION {[1..n -> DocAtoms] : n \in 0..MaxDocLen}

Records ==
    [source : {"arxiv", "pdf"}, paper_id : {"id"}, title : {<<"T">>},
     abstract : {None, Some(<<>>), Some(<<"a">>)},
     text : {None} \cup {Some(t) : t \in DocTexts},
     meta : {"meta"}]

\* The headers dict, for the keys whose header word is in DocAtoms.
ExtractKeys == {"abstract", "introduction"}
HeaderOf(key) ==
    CASE key = "abstract" -> "ABSTRACT"
      [] key = "introduction" -> "INTRODUCTION"

\* re.search(headers[key], text): the index of the first header word that
\* has whitespace or the text's edge on both sides, or 0.
FirstHeader(t, h) ==
    LET M == {i \in 1..Len(t) :
                /\ t[i] = h
                /\ (i = 1 \/ t[i - 1] \in Whitespace)
                /\ (i = Len(t) \/ t[i + 1] \in Whitespace)}
    IN  IF M = {} THEN 0 ELSE CHOOSE i \in M : \A j \in M : i <= j

FoundKeys(t) == {k \in ExtractKeys : FirstHeader(t, HeaderOf(k)) > 0}

\* indices[i + 1][1] after the sort, or len(text)
NextHeader(t, i) ==
    LET later == {FirstHeader(t, HeaderOf(k)) : k \in FoundKeys(t)}
                     \cap ((i + 1)..Len(t))
    IN  IF later = {} THEN Len(t) + 1
        ELSE CHOOSE j \in later : \A m \in later : j <= m

\* text[header_end:end_idx].strip()
SectionContent(t, k) ==
    LET i == FirstHeader(t, HeaderOf(k))
    IN  Strip(SubSeq(t, i + 1, NextHeader(t, i) - 1))

\* _extract_sections(text)
ExtractSections(t) ==
    [k \in {f \in FoundKeys(t) : SectionContent(t, f) # <<>>} |->
        SectionContent(t, k)]

PrepChunkSize == 3000
PrepOverlap == 200

\* The while loop of _chunk_text, from start st on.
RECURSIVE ChunkLoop(_, _, _, _)
ChunkLoop(t, st, cs, ov) ==
    IF st >= Len(t) THEN <<>>
    ELSE LET end == WindowEnd(t, st, cs, ov)
         IN  <<Slice(t, st, end)>>
                 \o ChunkLoop(t, NextStart(st, end, cs, ov), cs, ov)

\* _chunk_text(text, chunk_size, overlap)
ChunkText(t, cs, ov) ==
    IF Len(t) <= cs THEN <<t>> ELSE ChunkLoop(t, 0, cs, ov)

\* if not data.get('abstract') and 'abstract' in sections:
\*     data['abstract'] = sections['abstract']
AbstractAfter(d, secs) ==
    IF ~Truthy(d.abstract) /\ "abstract" \in DOMAIN secs
    THEN Some(secs["abstract"])
    ELSE d.abstract

PrepInit ==
    /\ ChunkIdle
    /\ RankIdle
    /\ PipeIdle
    /\ PackIdle
    /\ FocusIdle
    /\ SectIdle
    /\ NormIdle
    /\ data \in Records
    /\ data_at_call = data
    /\ prep_out = <<>>
    /\ qpc = "call"

Preprocess ==
    /\ qpc = "call"
    /\ LET raw == OrEmpty(data.text)
           clean == CleanTextResult(raw)
           secs == ExtractSections(clean)
           d == [data EXCEPT !.abstract = AbstractAfter(data, secs)]
           ft == IngestFocusTextResult(OrEmpty(d.abstract), secs, clean)
           cks == ChunkText(ft, PrepChunkSize, PrepOverlap)
       IN  /\ data' = d
           /\ prep_out' = [source |-> d.source, paper_id |-> d.paper_id,
                           title |-> d.title, abstract |-> d.abstract,
                           text |-> d.text, meta |-> d.meta,
                           clean_text |-> clean, sections |-> secs,
                           focus_text |-> ft, chunks |-> cks,
                           stats |-> [raw_len |-> Len(raw),
                                      clean_len |-> Len(clean),
                                      num_chunks |-> Len(cks)]]
    /\ qpc' = "done"
    /\ UNCHANGED data_at_call
    /\ UNCHANGED <<cvars, rvars, pvars, tvars, fvars, svars, nvars>>

PrepNext == Preprocess

PrepSpec == PrepInit /\ [][PrepNext]_vars

(***************************************************************************)
(* Properties of preprocess                                                *)
(***************************************************************************)
\* C26: after preprocess(data) returns, every field of the caller's record
\* (source, paper_id, title, abstract, text, meta) has the value it had
\* before the call.
C26_InputUnchanged == qpc = "done" => data = data_at_call

Init == ChunkInit \/ RankInit \/ PipeInit \/ PackInit \/ FocusInit
           \/ SectInit \/ NormInit \/ PrepInit
Next == ChunkNext \/ RankNext \/ PipeNext \/ PackNext \/ FocusNext
           \/ SectNext \/ NormNext \/ PrepNext
Spec == Init /\ [][Next]_vars

====
